---- MODULE Spec2Model ----
(***************************************************************************)
(* Model of mindsdb/integrations/handlers/langchain_handler/               *)
(* langchain_handler.py: the LangChainHandler (create, create_validation,  *)
(* predict, default_completion, sql_agent_completion, run_agent) and the   *)
(* three host-bridge tools built by _setup_tools.                          *)
(*                                                                         *)
(* Representation.  A Python str is a sequence of pieces; a piece is a     *)
(* TLA+ string standing for a run of characters that holds no brace.  The  *)
(* braces "{" and "}" are always pieces of their own, and so is every      *)
(* character of a text whose length matters (an error message cut by      *)
(* [:50], a query split on "." or stripped of "`").  Concatenation is \o.  *)
(* A Python value is a record [t, s]: t is its type, s its str().          *)
(* Row indices are 0-based as in the code; TLA+ sequences are 1-based, so  *)
(* row i of df is df[i + 1].                                               *)
(***************************************************************************)
EXTENDS Integers, Sequences, FiniteSets, TLC

\* ------------------------------------------------------------------ bounds
MaxRows == 3
MaxTplLen == 5

\* ------------------------------------------------------- program constants
ErrTruncLen == 50

\* ------------------------------------------------------------ Python values
PyNone == [t |-> "None", s |-> <<"None">>]
PyNaN == [t |-> "float", s |-> <<"nan">>]
PyStr(s) == [t |-> "str", s |-> s]

\* str(v)
Str(v) == v.s

\* pandas isna(): None and NaN are missing, a str (the empty one too) is not
IsNa(v) == v.t = "None" \/ (v.t = "float" /\ v.s = <<"nan">>)

Min(a, b) == IF a < b THEN a ELSE b

\* s[:n]
Prefix(s, n) == SubSeq(s, 1, Min(n, Len(s)))

\* s.replace(c, '') for a one-character c
RECURSIVE RemoveChar(_, _)
RemoveChar(s, c) ==
    IF s = <<>> THEN <<>>
    ELSE IF Head(s) = c THEN RemoveChar(Tail(s), c)
    ELSE <<Head(s)>> \o RemoveChar(Tail(s), c)

\* s.replace(c + c, c): left to right, non-overlapping, one pass
RECURSIVE ReplaceDoubledOnce(_, _)
ReplaceDoubledOnce(s, c) ==
    IF s = <<>> THEN <<>>
    ELSE IF Len(s) >= 2 /\ s[1] = c /\ s[2] = c
         THEN <<c>> \o ReplaceDoubledOnce(SubSeq(s, 3, Len(s)), c)
         ELSE <<s[1]>> \o ReplaceDoubledOnce(Tail(s), c)

\* a plausible slip: collapsing until no doubled brace is left
RECURSIVE ReplaceDoubledRepeatedly(_, _)
ReplaceDoubledRepeatedly(s, c) ==
    LET r == ReplaceDoubledOnce(s, c)
    IN IF r = s THEN s ELSE ReplaceDoubledRepeatedly(r, c)

ReplaceDoubled(s, c) == ReplaceDoubledOnce(s, c)

\* ------------------------------------------------------- template compiler
\* the smallest e >= from with "}}" at e, e + 1; 0 when there is none
RECURSIVE FindClose(_, _)
FindClose(s, from) ==
    IF from + 1 > Len(s) THEN 0
    ELSE IF s[from] = "}" /\ s[from + 1] = "}" THEN from
    ELSE FindClose(s, from + 1)

\* re.finditer("{{(.*?)}}", s) from position p: the spans <<first, last>> of
\* the successive leftmost matches, each ending at the nearest "}}" (the
\* group is lazy); the scan resumes after the end of a match.
RECURSIVE FindIter(_, _)
FindIter(s, p) ==
    IF p + 3 > Len(s) THEN <<>>
    ELSE IF s[p] = "{" /\ s[p + 1] = "{"
         THEN LET e == FindClose(s, p + 2)
              IN IF e = 0 THEN <<>>
                 ELSE <<<<p, e + 1>>>> \o FindIter(s, e + 2)
         ELSE FindIter(s, p + 1)

\* m[0].replace('{', '').replace('}', '')
MatchName(s, span) == RemoveChar(RemoveChar(SubSeq(s, span[1], span[2]), "{"), "}")

InputVariables(tpl) ==
    LET ms == FindIter(tpl, 1)
    IN [k \in 1..Len(ms) |-> MatchName(tpl, ms[k])]

\* base_template.replace('{{', '{').replace('}}', '}')
CompileTemplate(tpl) == ReplaceDoubled(ReplaceDoubled(tpl, "{"), "}")

\* ------------------------------------------------------------ dict helpers
\* a Python dict is a function whose domain is the keys present
EmptyDict == <<>>
Has(d, k) == k \in DOMAIN d
Get(d, k, default) == IF k \in DOMAIN d THEN d[k] ELSE default

\* ------------------------------------------------------- row prompt builder
TextCol == <<"text">>
BCol == <<"b">>
LiteralCol == <<"literal">>
XCol == <<"x">>
ColumnNames == {TextCol, BCol, LiteralCol, XCol}

FindChar(s, c, from) ==
    LET hits == {i \in from..Len(s) : s[i] = c}
    IN IF hits = {} THEN 0 ELSE CHOOSE i \in hits : \A j \in hits : i <= j

FormatFail == [ok |-> FALSE, s |-> <<>>]
FormatJoin(prefix, r) == IF r.ok THEN [ok |-> TRUE, s |-> prefix \o r.s] ELSE r

\* str.format(**kw) on a single-brace template: "{{" and "}}" are literal
\* braces, "{name}" is str(kw[name]); a lone "}", an unclosed "{", a name
\* that is no key of kw or an empty name is an error.
RECURSIVE Format(_, _)
Format(s, kw) ==
    IF s = <<>> THEN [ok |-> TRUE, s |-> <<>>]
    ELSE IF s[1] = "{" THEN
        IF Len(s) >= 2 /\ s[2] = "{"
        THEN FormatJoin(<<"{">>, Format(SubSeq(s, 3, Len(s)), kw))
        ELSE LET e == FindChar(s, "}", 2)
             IN IF e = 0 THEN FormatFail
                ELSE LET name == SubSeq(s, 2, e - 1)
                     IN IF FindChar(name, "{", 1) # 0 \/ name \notin DOMAIN kw
                        THEN FormatFail
                        ELSE FormatJoin(Str(kw[name]),
                                        Format(SubSeq(s, e + 1, Len(s)), kw))
    ELSE IF s[1] = "}" THEN
        IF Len(s) >= 2 /\ s[2] = "}"
        THEN FormatJoin(<<"}">>, Format(SubSeq(s, 3, Len(s)), kw))
        ELSE FormatFail
    ELSE FormatJoin(<<s[1]>>, Format(Tail(s), kw))

\* the replacement fields of a single-brace template that formats
RECURSIVE FieldNames(_)
FieldNames(s) ==
    IF s = <<>> THEN {}
    ELSE IF Len(s) >= 2 /\ s[1] \in {"{", "}"} /\ s[2] = s[1]
    THEN FieldNames(SubSeq(s, 3, Len(s)))
    ELSE IF s[1] = "{" /\ FindChar(s, "}", 2) # 0
    THEN {SubSeq(s, 2, FindChar(s, "}", 2) - 1)}
         \cup FieldNames(SubSeq(s, FindChar(s, "}", 2) + 1, Len(s)))
    ELSE FieldNames(Tail(s))

\* every input variable is a column of df (df[input_variables] raises otherwise)
ColumnsKnown(vars) == \A k \in 1..Len(vars) : vars[k] \in ColumnNames

\* a slip: a row is dropped as soon as one referenced column is missing
RowIsEmptyAny(row, vars) == \E k \in 1..Len(vars) : IsNa(row[vars[k]])

\* df[input_variables].isna().all(axis=1), for one row
RowIsEmpty(row, vars) == \A k \in 1..Len(vars) : IsNa(row[vars[k]])

\* np.where(...)[0]: the 0-based indices of the rows that are all missing
EmptyPromptIds(df, vars) == {i \in 0..(Len(df) - 1) : RowIsEmpty(df[i + 1], vars)}

\* the elements of a set of integers in ascending order
RECURSIVE Sorted(_)
Sorted(S) ==
    IF S = {} THEN <<>>
    ELSE LET m == CHOOSE x \in S : \A y \in S : x <= y
         IN <<m>> \o Sorted(S \ {m})

\* row[col] if row[col] is not None else ''
KwargValue(v) == IF v.t = "None" THEN PyStr(<<>>) ELSE v

Kwargs(row, vars) ==
    [c \in {vars[k] : k \in 1..Len(vars)} |-> KwargValue(row[c])]

\* PromptTemplate(input_variables, template).format(**kwargs) for one row;
\* langchain's formatter is strict: an input variable the template does not
\* use is an error too
BuildPrompt(row, vars, base) ==
    IF \E k \in 1..Len(vars) : vars[k] \notin FieldNames(base)
    THEN FormatFail
    ELSE Format(base, Kwargs(row, vars))

\* a slip: the rows are walked in descending order
RowOrderDescending(df, empty) ==
    LET asc == Sorted({i \in 0..(Len(df) - 1) : i \notin empty})
    IN [k \in 1..Len(asc) |-> asc[Len(asc) + 1 - k]]

\* for i, row in df.iterrows(): if i not in empty_prompt_ids
RowOrder(df, empty) == Sorted({i \in 0..(Len(df) - 1) : i \notin empty})

\* the formatted prompts of the included rows, in loop order
BuiltPrompts(df, vars, base, empty) ==
    LET order == RowOrder(df, empty)
    IN [k \in 1..Len(order) |-> BuildPrompt(df[order[k] + 1], vars, base)]

\* ------------------------------------------------------------ execution loop
AgentFailedMarker == "agent failed with error:\n"

\* a slip: the message is embedded whole
FailureCompletionUncut(e) == <<AgentFailedMarker>> \o e \o <<"...">>

\* f'agent failed with error:\n{str(e)[:50]}...'
FailureCompletion(e) == <<AgentFailedMarker>> \o Prefix(e, ErrTruncLen) \o <<"...">>

\* list.insert(i, x): before index i (0-based), at the end when i >= len
ListInsert(l, i, x) ==
    LET j == Min(i, Len(l))
    IN SubSeq(l, 1, j) \o <<x>> \o SubSeq(l, j + 1, Len(l))

RECURSIVE InsertEach(_, _, _)
InsertEach(l, ids, x) ==
    IF ids = <<>> THEN l
    ELSE InsertEach(ListInsert(l, Head(ids), x), Tail(ids), x)

\* a slip: the excluded rows are left out of the result
InsertNullsSkipped(completion, empty) == completion

\* for i in sorted(empty_prompt_ids): completion.insert(i, None)
InsertNulls(completion, empty) == InsertEach(completion, Sorted(empty), PyNone)

\* ---------------------------------------------------------------- tool list
MdbTool == "MindsDB"
MdbMetaTool == "MDB-Metadata"
MdbWriteTool == "MDB-Write"
SerperTool == "Intermediate Answer (serper.dev)"
DefaultAgentTools == <<"python_repl", "wikipedia">>

\* if self.write_privileges: tools.append(mdb_write_tool)
WriteTools(wp) == IF wp THEN <<MdbWriteTool>> ELSE <<>>

\* tools.append(mdb_tool); tools.append(mdb_meta_tool)
BridgeTools(wp) == <<MdbTool, MdbMetaTool>>

\* _setup_tools: load_tools(toolkit), the search tool when a serper key is
\* resolved, the two read-side bridge tools, the write tool when privileged
SetupTools(toolkit, serper, wp) ==
    toolkit \o (IF serper THEN <<SerperTool>> ELSE <<>>) \o BridgeTools(wp) \o WriteTools(wp)

\* ------------------------------------------------------------------- state
VARIABLES
    write_privileges,    \* self.write_privileges
    default_agent_tools, \* self.default_agent_tools
    model_args,          \* model_storage 'args': [set |-> BOOLEAN, d |-> dict]
    pc,                  \* "idle" | "loop" (between two agent runs) | "running" (inside
                         \* agent.run) | "done" (the call has returned or raised)
    op,                  \* the handler method of the current or last call
    outcome,             \* "none" | "pending" | "returned" | "raised"
    error,               \* what the last call raised
    df,                  \* predict: the input rows
    llm_built,           \* predict: LLM clients constructed during this call
    agents_built,        \* predict: agents constructed during this call
    agent,               \* predict: the agent, [kind, tools]
    input_variables,     \* run_agent: the placeholder names
    base_template,       \* run_agent: the template (compiled once line 194 has run)
    empty_prompt_ids,    \* run_agent: 0-based indices of the excluded rows
    prompts,             \* run_agent: the formatted prompts
    completion,          \* run_agent: the completions so far
    agent_memory,        \* the turns the agent has seen: [prompt, status, result], result
                         \* being the text returned or the message of the exception
    pred_df,             \* run_agent: the returned column
    call_args,           \* the arguments of the current or last call
    tool_name,           \* the bridge tool last invoked by the running agent
    tool_env,            \* its input and what the parser, the executor and the source
                         \* handler did during that invocation
    tool_ret,            \* what that invocation returned
    tool_raised,         \* whether it raised
    executed             \* the statements it passed to executor.execute_command

handlerVars == <<write_privileges, default_agent_tools, model_args>>
callVars == <<op, outcome, error, call_args>>
predictVars == <<df, llm_built, agents_built, agent, input_variables, base_template,
                 empty_prompt_ids, prompts, completion, agent_memory, pred_df>>
toolVars == <<tool_name, tool_env, tool_ret, tool_raised, executed>>
vars == <<handlerVars, pc, callVars, predictVars, toolVars>>

NoAgent == [kind |-> "none", tools |-> <<>>]
NoStoredArgs == [set |-> FALSE, d |-> EmptyDict]

\* the locals of a predict call before the call has set them
ClearPredict ==
    /\ df' = <<>>
    /\ llm_built' = 0
    /\ agents_built' = 0
    /\ agent' = NoAgent
    /\ input_variables' = <<>>
    /\ base_template' = <<>>
    /\ empty_prompt_ids' = {}
    /\ prompts' = <<>>
    /\ completion' = <<>>
    /\ agent_memory' = <<>>
    /\ pred_df' = <<>>

ClearTool ==
    /\ tool_name' = "none"
    /\ tool_env' = EmptyDict
    /\ tool_ret' = PyNone
    /\ tool_raised' = FALSE
    /\ executed' = <<>>

\* __init__
Init ==
    /\ write_privileges = FALSE
    /\ default_agent_tools = DefaultAgentTools
    /\ model_args = NoStoredArgs
    /\ pc = "idle"
    /\ op = "none"
    /\ outcome = "none"
    /\ error = "none"
    /\ call_args = EmptyDict
    /\ df = <<>>
    /\ llm_built = 0
    /\ agents_built = 0
    /\ agent = NoAgent
    /\ input_variables = <<>>
    /\ base_template = <<>>
    /\ empty_prompt_ids = {}
    /\ prompts = <<>>
    /\ completion = <<>>
    /\ agent_memory = <<>>
    /\ pred_df = <<>>
    /\ tool_name = "none"
    /\ tool_env = EmptyDict
    /\ tool_ret = PyNone
    /\ tool_raised = FALSE
    /\ executed = <<>>

\* ------------------------------------------------------------------ create
\* self.write_privileges = args.get('using', {}).get('writer', self.write_privileges)
WritePrivilegesAfterCreate(args, current) ==
    Get(Get(args, "using", EmptyDict), "writer", current)

\* OpenAIHandler.create: args = args['using']; model_storage.json_set('args', args)
SuperCreate(args, stored) ==
    IF Has(args, "using")
    THEN [raised |-> FALSE, stored |-> [set |-> TRUE, d |-> args["using"]]]
    ELSE [raised |-> TRUE, stored |-> stored]

Create(args) ==
    /\ pc = "idle"
    /\ write_privileges' = WritePrivilegesAfterCreate(args, write_privileges)
    /\ default_agent_tools' = Get(args, "tools", default_agent_tools)
    /\ LET r == SuperCreate(args, model_args)
       IN /\ model_args' = r.stored
          /\ outcome' = IF r.raised THEN "raised" ELSE "returned"
          /\ error' = IF r.raised THEN "KeyError: using" ELSE "none"
    /\ op' = "create"
    /\ call_args' = args
    /\ pc' = "done"
    /\ ClearPredict
    /\ ClearTool

\* create_validation (static): which error it raises, "none" when it returns
CreateValidationError(args) ==
    IF ~Has(args, "using") THEN "LangChain engine requires a USING clause!"
    ELSE IF ~Has(args["using"], "prompt_template")
         THEN "Please provide a prompt_template for this engine."
         ELSE "none"

CreateValidation(args) ==
    /\ pc = "idle"
    /\ op' = "create_validation"
    /\ call_args' = args
    /\ error' = CreateValidationError(args)
    /\ outcome' = IF CreateValidationError(args) = "none" THEN "returned" ELSE "raised"
    /\ pc' = "done"
    /\ ClearPredict
    /\ ClearTool
    /\ UNCHANGED handlerVars

\* ----------------------------------------------------------------- predict
\* bool(s) of a str
Truthy(s) == s # <<>>

\* line 98: 'prompt_template' in args or 'prompt_template' in pred_args
TemplateSupplied(args, pp) == Has(args, "prompt_template") \/ Has(pp, "prompt_template")

\* modal_dispatch.get(args.get('modal_dispatch', 'default'), 'default_completion')
AgentCreationMethod(args) ==
    IF Get(args, "modal_dispatch", "default") = "sql_agent"
    THEN "sql_agent_completion"
    ELSE "default_completion"

\* OpenAIHandler._get_openai_api_key(args, strict=True): the key from the model
\* arguments, else from the engine's connection arguments or the environment;
\* raises when none of them holds it
OpenAIKeyResolved(args, env) == Has(args, "openai_api_key") \/ env.openai_api_key

\* _get_serper_api_key(args, strict=False)
SerperKeyResolved(args, env) == Has(args, "serper_api_key") \/ env.serper_api_key

\* lines 147 and 308: the tool identifiers handed to load_tools
Toolkit(args, pp, dat) ==
    IF Has(pp, "tools") THEN pp["tools"]
    ELSE IF Has(args, "tools") THEN args["tools"]
    ELSE dat

\* default_completion: the key is resolved before the client, the memory and
\* the agent are constructed
DefaultCompletion(args, pp, env, wp, dat) ==
    IF ~OpenAIKeyResolved(args, env)
    THEN [raised |-> TRUE, error |-> "Missing API key", llm_built |-> 0,
          agents_built |-> 0, agent |-> NoAgent]
    ELSE [raised |-> FALSE, error |-> "none", llm_built |-> 1, agents_built |-> 1,
          agent |-> [kind |-> "default",
                     tools |-> SetupTools(Toolkit(args, pp, dat),
                                          SerperKeyResolved(args, env), wp)]]

\* sql_agent_completion: the toolkit supplies its own tools
SqlAgentCompletion(args) ==
    [raised |-> FALSE, error |-> "none", llm_built |-> 1, agents_built |-> 1,
     agent |-> [kind |-> "sql_agent", tools |-> <<"SQLDatabaseToolkit">>]]

\* lines 181-184: the predict-time template when it is truthy, else
\* args['prompt_template'] (a KeyError when the model has none)
SelectTemplate(args, pp) ==
    IF Truthy(Get(pp, "prompt_template", <<>>))
    THEN [ok |-> TRUE, t |-> pp["prompt_template"]]
    ELSE IF Has(args, "prompt_template")
         THEN [ok |-> TRUE, t |-> args["prompt_template"]]
         ELSE [ok |-> FALSE, t |-> <<>>]

\* run_agent up to the execution loop (lines 181-203)
RunAgentEntry(d, args, pp) ==
    LET sel == SelectTemplate(args, pp)
        ivars == InputVariables(sel.t)
        empty == EmptyPromptIds(d, ivars)
        base == CompileTemplate(sel.t)
        built == BuiltPrompts(d, ivars, base, empty)
    IN IF ~sel.ok
       THEN [raised |-> TRUE, error |-> "KeyError: prompt_template",
             input_variables |-> <<>>, base_template |-> <<>>,
             empty_prompt_ids |-> {}, prompts |-> <<>>]
       ELSE IF ~ColumnsKnown(ivars)
       THEN [raised |-> TRUE, error |-> "KeyError: column",
             input_variables |-> ivars, base_template |-> sel.t,
             empty_prompt_ids |-> {}, prompts |-> <<>>]
       ELSE IF \E k \in 1..Len(built) : ~built[k].ok
       THEN [raised |-> TRUE, error |-> "format error",
             input_variables |-> ivars, base_template |-> base,
             empty_prompt_ids |-> empty, prompts |-> <<>>]
       ELSE [raised |-> FALSE, error |-> "none",
             input_variables |-> ivars, base_template |-> base,
             empty_prompt_ids |-> empty,
             prompts |-> [k \in 1..Len(built) |-> built[k].s]]

NothingRun ==
    [raised |-> TRUE, error |-> "none", input_variables |-> <<>>,
     base_template |-> <<>>, empty_prompt_ids |-> {}, prompts |-> <<>>]

NothingBuilt(err) ==
    [raised |-> TRUE, error |-> err, llm_built |-> 0, agents_built |-> 0,
     agent |-> NoAgent]

\* predict down to the first agent run: df is the input (index reset), pp the
\* predict_params, env what the environment and the engine's connection
\* arguments hold
Predict(d, pp, env) ==
    /\ pc = "idle"
    /\ LET args == model_args.d
           b == IF ~model_args.set
                THEN NothingBuilt("TypeError: args is None")
                ELSE IF ~TemplateSupplied(args, pp)
                THEN NothingBuilt("This model expects a prompt template, please provide one.")
                ELSE IF AgentCreationMethod(args) = "sql_agent_completion"
                THEN SqlAgentCompletion(args)
                ELSE DefaultCompletion(args, pp, env, write_privileges, default_agent_tools)
           r == IF b.raised THEN NothingRun ELSE RunAgentEntry(d, args, pp)
           raised == b.raised \/ r.raised
       IN /\ llm_built' = b.llm_built
          /\ agents_built' = b.agents_built
          /\ agent' = b.agent
          /\ input_variables' = r.input_variables
          /\ base_template' = r.base_template
          /\ empty_prompt_ids' = r.empty_prompt_ids
          /\ prompts' = r.prompts
          /\ outcome' = IF raised THEN "raised" ELSE "pending"
          /\ error' = IF b.raised THEN b.error ELSE r.error
          /\ pc' = IF raised THEN "done" ELSE "loop"
    /\ op' = "predict"
    /\ call_args' = [predict_params |-> pp, env |-> env]
    /\ df' = d
    /\ completion' = <<>>
    /\ agent_memory' = <<>>
    /\ pred_df' = <<>>
    /\ ClearTool
    /\ UNCHANGED handlerVars

\* for prompt in prompts: agent.run(prompt) is entered
AgentCall ==
    /\ pc = "loop"
    /\ Len(completion) < Len(prompts)
    /\ agent_memory' = Append(agent_memory,
                              [prompt |-> prompts[Len(completion) + 1],
                               status |-> "running", result |-> <<>>])
    /\ pc' = "running"
    /\ ClearTool
    /\ UNCHANGED <<handlerVars, callVars, df, llm_built, agents_built, agent,
                   input_variables, base_template, empty_prompt_ids, prompts,
                   completion, pred_df>>

SetLastStatus(mem, st, res) ==
    [mem EXCEPT ![Len(mem)].status = st, ![Len(mem)].result = res]

\* agent.run(prompt) returns its text
AgentReturn(reply) ==
    /\ pc = "running"
    /\ completion' = Append(completion, PyStr(reply))
    /\ agent_memory' = SetLastStatus(agent_memory, "returned", reply)
    /\ pc' = "loop"
    /\ UNCHANGED <<handlerVars, callVars, df, llm_built, agents_built, agent,
                   input_variables, base_template, empty_prompt_ids, prompts,
                   pred_df, toolVars>>

\* agent.run(prompt) raises an Exception with message e; the loop goes on
AgentRaise(e) ==
    /\ pc = "running"
    /\ completion' = Append(completion, PyStr(FailureCompletion(e)))
    /\ agent_memory' = SetLastStatus(agent_memory, "failed", e)
    /\ pc' = "loop"
    /\ UNCHANGED <<handlerVars, callVars, df, llm_built, agents_built, agent,
                   input_variables, base_template, empty_prompt_ids, prompts,
                   pred_df, toolVars>>

\* the loop is over: the nulls are put back and the column is returned
RunAgentReturn ==
    /\ pc = "loop"
    /\ Len(completion) = Len(prompts)
    /\ pred_df' = InsertNulls(completion, empty_prompt_ids)
    /\ outcome' = "returned"
    /\ pc' = "done"
    /\ UNCHANGED <<handlerVars, op, error, call_args, df, llm_built, agents_built,
                   agent, input_variables, base_template, empty_prompt_ids, prompts,
                   completion, agent_memory, toolVars>>

\* the caller has the result (or the error); the locals of the call are gone
ReturnToCaller ==
    /\ pc = "done"
    /\ pc' = "idle"
    /\ op' = "none"
    /\ outcome' = "none"
    /\ error' = "none"
    /\ call_args' = EmptyDict
    /\ ClearPredict
    /\ ClearTool
    /\ UNCHANGED handlerVars

\* ------------------------------------------------------- host-bridge tools
\* the backtick character
Backtick == "<backtick>"

\* s.strip(c)
RECURSIVE LStrip(_, _)
LStrip(s, c) == IF s # <<>> /\ Head(s) = c THEN LStrip(Tail(s), c) ELSE s
RECURSIVE RStrip(_, _)
RStrip(s, c) ==
    IF s # <<>> /\ s[Len(s)] = c THEN RStrip(SubSeq(s, 1, Len(s) - 1), c) ELSE s
Strip(s, c) == RStrip(LStrip(s, c), c)

\* s.split(c)
RECURSIVE Split(_, _)
Split(s, c) ==
    LET i == FindChar(s, c, 1)
    IN IF i = 0 THEN <<s>>
       ELSE <<SubSeq(s, 1, i - 1)>> \o Split(SubSeq(s, i + 1, Len(s)), c)

\* sep.join(parts)
RECURSIVE Join(_, _)
Join(parts, sep) ==
    IF parts = <<>> THEN <<>>
    ELSE IF Len(parts) = 1 THEN parts[1]
    ELSE parts[1] \o sep \o Join(Tail(parts), sep)

ToolFailed == "mindsdb tool failed with error:\n"
WriteSucceeded == "mindsdb write tool executed successfully"
WriteFailed == "mindsdb write tool failed with error:\n"

\* parse_sql(text, dialect='mindsdb'): the statement a text parses to; it
\* raises on a text that is no statement
InsertText == <<"INSERT INTO files.t (a) VALUES (1)", ";">>
SelectText == <<"SELECT a FROM files.t", ";">>
ShowText == <<"SHOW DATABASES", ";">>
ParseSql(text) ==
    IF text = InsertText THEN [raised |-> FALSE, error |-> <<>>, kind |-> "Insert"]
    ELSE IF text = SelectText THEN [raised |-> FALSE, error |-> <<>>, kind |-> "Select"]
    ELSE IF text = ShowText THEN [raised |-> FALSE, error |-> <<>>, kind |-> "Show"]
    ELSE [raised |-> TRUE, error |-> <<"syntax error">>, kind |-> "none"]

\* what a tool invocation leaves: the value returned, whether it raised, the
\* statements handed to executor.execute_command
ToolResult(ret, ex) == [ret |-> ret, raised |-> FALSE, executed |-> ex]

\* a result row as the cells '\t'.join sees: the characters of a str row, the
\* str() of each value of a list row
RowCells(row) ==
    IF row.t = "str" THEN [k \in 1..Len(row.s) |-> <<row.s[k]>>]
    ELSE [k \in 1..Len(row.vals) |-> Str(row.vals[k])]

\* lines 233-238; a data that is no list, or a row that is neither a str nor
\* a list, raises TypeError
RenderData(data) ==
    IF data.t # "list" THEN [raised |-> TRUE, s |-> <<"TypeError">>]
    ELSE IF \E k \in 1..Len(data.rows) : data.rows[k].t \notin {"str", "list"}
    THEN [raised |-> TRUE, s |-> <<"TypeError">>]
    ELSE [raised |-> FALSE,
          s |-> Join([k \in 1..Len(data.rows) |-> Join(RowCells(data.rows[k]), <<"\t">>)],
                     <<"\n">>)]

\* _mdb_exec_call: exec is what executor.execute_command does
MdbExecCallResult(query, exec) ==
    LET stripped == Strip(query, Backtick)
        parse == ParseSql(stripped)
        ast == [kind |-> parse.kind, text |-> stripped]
        rendered == RenderData(exec.data)
    IN IF parse.raised
       THEN ToolResult(PyStr(<<ToolFailed>> \o parse.error), <<>>)
       ELSE IF exec.raised
       THEN ToolResult(PyStr(<<ToolFailed>> \o exec.error), <<ast>>)
       ELSE IF rendered.raised
       THEN ToolResult(PyStr(<<ToolFailed>> \o rendered.s), <<ast>>)
       ELSE ToolResult(PyStr(rendered.s), <<ast>>)

\* a slip: every statement that parses is executed
WriteExecutesAny(kind) == TRUE

\* isinstance(ast_query, Insert)
WriteExecutes(kind) == kind = "Insert"

\* _mdb_write_call: nothing is returned on the path of a statement that is
\* no Insert, so the call yields None there
MdbWriteCallResult(query, exec) ==
    LET stripped == Strip(Strip(query, Backtick), Backtick)
        parse == ParseSql(stripped)
        ast == [kind |-> parse.kind, text |-> stripped]
    IN IF parse.raised
       THEN ToolResult(PyStr(<<WriteFailed>> \o parse.error), <<>>)
       ELSE IF ~WriteExecutes(parse.kind)
       THEN ToolResult(PyNone, <<>>)
       ELSE IF exec.raised
       THEN ToolResult(PyStr(<<WriteFailed>> \o exec.error), <<ast>>)
       ELSE ToolResult(PyStr(<<WriteSucceeded>>), <<ast>>)

\* the rows of a table listing whose column col holds name; col is
\* 'TABLE_NAME' when the listing has it, else 'table_name'
ListingMatches(listing, name) ==
    SelectSeq(listing.rows, LAMBDA r : r[1] = PyStr(name))

\* str() of a list of values
StrList(vals) ==
    <<"[">> \o Join([k \in 1..Len(vals) |-> Str(vals[k])], <<", ">>) \o <<"]">>

\* lines 259-275: the metadata of one table; the bare except turns every
\* failure (no such column, no such row, get_columns raising) into "not found"
TableMetadata(table_name, listing, columns) ==
    LET found == ListingMatches(listing, table_name)
        mdata == found[1]
        head == <<"Metadata for table ">> \o table_name \o <<":\n">>
        rowinfo ==
            IF Len(mdata) = 3
            THEN <<"\tRow count: ">> \o Str(mdata[2]) \o <<"\n\tType: ">>
                 \o Str(mdata[3]) \o <<"\n">>
            ELSE IF Len(mdata) = 2
            THEN <<"\tRow count: ">> \o StrList(mdata) \o <<"\n">>
            ELSE <<>>
        cols == Join([k \in 1..Min(Len(columns.fields), Len(columns.types)) |->
                         <<"\tColumn: ", Backtick>> \o columns.fields[k]
                         \o <<Backtick, "\tType: ", Backtick>> \o columns.types[k]
                         \o <<Backtick>>],
                     <<"\n">>)
    IN IF listing.name_col \notin {"TABLE_NAME", "table_name"} \/ found = <<>>
          \/ columns.raised
       THEN <<"Table ">> \o table_name \o <<" not found.">>
       ELSE head \o rowinfo \o <<"List of columns and types:\n">> \o cols

\* _mdb_exec_metadata_call: handler is what get_handler does, listing what
\* get_tables does, columns what get_columns does
MdbExecMetadataCallResult(query, handler, listing, columns) ==
    LET parts == Split(RemoveChar(query, Backtick), ".")
        integration == parts[1]
    IN IF ~(1 <= Len(parts) /\ Len(parts) <= 2)
       THEN ToolResult(PyStr(<<ToolFailed, "query must be in the format: ", Backtick,
                               "integration", Backtick, " or ", Backtick,
                               "integration.table", Backtick>>), <<>>)
       ELSE IF handler.raised
       THEN ToolResult(PyStr(<<ToolFailed>> \o handler.error), <<>>)
       ELSE IF listing.raised
       THEN ToolResult(PyStr(<<ToolFailed>> \o listing.error), <<>>)
       ELSE IF Len(parts) = 1
       THEN IF listing.name_col # "TABLE_NAME"
            THEN ToolResult(PyStr(<<ToolFailed, "'TABLE_NAME'">>), <<>>)
            ELSE ToolResult(
                    PyStr(<<"The integration ", Backtick>> \o integration
                          \o <<Backtick, " has ", ToString(Len(listing.rows)), " tables: ">>
                          \o Join([k \in 1..Len(listing.rows) |-> Str(listing.rows[k][1])],
                                  <<", ">>)),
                    <<>>)
       ELSE ToolResult(PyStr(TableMetadata(parts[2], listing, columns)), <<>>)

\* the running agent has been given the tool
AgentHasTool(name) ==
    /\ pc = "running"
    /\ \E k \in 1..Len(agent.tools) : agent.tools[k] = name

\* the running agent invokes the read tool
MdbExecCall(query, exec) ==
    /\ AgentHasTool(MdbTool)
    /\ tool_name' = MdbTool
    /\ tool_env' = [query |-> query, exec |-> exec]
    /\ LET r == MdbExecCallResult(query, exec)
       IN /\ tool_ret' = r.ret
          /\ tool_raised' = r.raised
          /\ executed' = r.executed
    /\ UNCHANGED <<handlerVars, pc, callVars, predictVars>>

\* the running agent invokes the metadata tool
MdbExecMetadataCall(query, handler, listing, columns) ==
    /\ AgentHasTool(MdbMetaTool)
    /\ tool_name' = MdbMetaTool
    /\ tool_env' = [query |-> query, handler |-> handler, listing |-> listing,
                    columns |-> columns]
    /\ LET r == MdbExecMetadataCallResult(query, handler, listing, columns)
       IN /\ tool_ret' = r.ret
          /\ tool_raised' = r.raised
          /\ executed' = r.executed
    /\ UNCHANGED <<handlerVars, pc, callVars, predictVars>>

\* the running agent invokes the write tool
MdbWriteCall(query, exec) ==
    /\ AgentHasTool(MdbWriteTool)
    /\ tool_name' = MdbWriteTool
    /\ tool_env' = [query |-> query, exec |-> exec]
    /\ LET r == MdbWriteCallResult(query, exec)
       IN /\ tool_ret' = r.ret
          /\ tool_raised' = r.raised
          /\ executed' = r.executed
    /\ UNCHANGED <<handlerVars, pc, callVars, predictVars>>

\* ------------------------------------------------------------------ inputs
Row(text, b) ==
    (TextCol :> text) @@ (BCol :> b) @@ (LiteralCol :> PyStr(<<"L">>))
    @@ (XCol :> PyStr(<<"X">>))

RowHello == Row(PyStr(<<"hello">>), PyStr(<<"fr">>))
RowMissing == Row(PyNone, PyNone)
RowBye == Row(PyStr(<<"bye">>), PyNaN)
RowOnlyB == Row(PyNone, PyStr(<<"fr">>))
RowNaN == Row(PyNaN, PyNaN)
Rows == {RowHello, RowMissing, RowBye, RowOnlyB, RowNaN}

\* the row sets of at most MaxRows rows
Frames == UNION {[1..n -> Rows] : n \in 0..MaxRows}
SmallFrames == {<<>>, <<RowHello>>, <<RowMissing, RowHello>>}

TranslateTemplate == <<"Translate: ", "{", "{", "text", "}", "}">>
PairTemplate == <<"{", "{", "text", "}", "}", " to ", "{", "{", "b", "}", "}">>
PlainTemplate == <<"hi">>
UnknownColumnTemplate == <<"{", "{", "zzz", "}", "}">>
LoneBraceTemplate == <<"{", "{", "text", "}", "}", "}">>
EscapeTemplate ==
    <<"{", "{", "{", "{", "literal", "}", "}", "}", "}", " ", "{", "{", "x", "}", "}">>

AgentReplies == {<<"reply-1">>, <<"reply-2">>}
Chars(n) == [i \in 1..n |-> "e"]
ErrorMessages == {Chars(3), Chars(ErrTruncLen + 1)}

Envs == [openai_api_key : BOOLEAN, serper_api_key : BOOLEAN]
FullEnv == [openai_api_key |-> TRUE, serper_api_key |-> FALSE]

\* USING clauses: every combination of writer, prompt_template,
\* modal_dispatch and openai_api_key being given or not
WriterOptions == {EmptyDict, [writer |-> TRUE], [writer |-> FALSE]}
TemplateOptions == {EmptyDict, [prompt_template |-> TranslateTemplate]}
DispatchOptions == {EmptyDict, [modal_dispatch |-> "sql_agent"]}
KeyOptions == {EmptyDict, [openai_api_key |-> "sk"]}
UsingClauses ==
    {w @@ t @@ m @@ k : w \in WriterOptions, t \in TemplateOptions,
                        m \in DispatchOptions, k \in KeyOptions}
CreateArgs ==
    {EmptyDict, [tools |-> <<"wikipedia">>]}
    \cup {[using |-> u] : u \in UsingClauses}
    \cup {[using |-> u, tools |-> <<"wikipedia">>] : u \in UsingClauses}

PredictParams ==
    {EmptyDict, [prompt_template |-> <<>>], [prompt_template |-> PairTemplate]}

\* ---------------------------------------------- the handler's life: Spec
Next ==
    \/ \E args \in CreateArgs : Create(args)
    \/ \E args \in CreateArgs : CreateValidation(args)
    \/ \E d \in SmallFrames, pp \in PredictParams, env \in Envs : Predict(d, pp, env)
    \/ AgentCall
    \/ \E reply \in AgentReplies : AgentReturn(reply)
    \/ \E e \in ErrorMessages : AgentRaise(e)
    \/ RunAgentReturn
    \/ ReturnToCaller

Spec == Init /\ [][Next]_vars

\* ------------------------------------- one model, every row set: SpecRun
RunTemplates ==
    {TranslateTemplate, PairTemplate, PlainTemplate, UnknownColumnTemplate,
     LoneBraceTemplate}
RunCreateArgs ==
    {[using |-> [prompt_template |-> t, openai_api_key |-> "sk"]] : t \in RunTemplates}

NextRun ==
    \/ \E args \in RunCreateArgs : Create(args)
    \/ \E d \in Frames : Predict(d, EmptyDict, FullEnv)
    \/ AgentCall
    \/ \E reply \in AgentReplies : AgentReturn(reply)
    \/ \E e \in ErrorMessages : AgentRaise(e)
    \/ RunAgentReturn
    \/ ReturnToCaller

SpecRun == Init /\ [][NextRun]_vars

\* ------------------------------------- the agent uses its tools: SpecTools
ToolCreateArgs ==
    {[using |-> [prompt_template |-> TranslateTemplate, openai_api_key |-> "sk",
                 writer |-> w]] : w \in BOOLEAN}

StatementQueries ==
    {InsertText, <<Backtick>> \o InsertText \o <<Backtick>>, SelectText,
     <<Backtick, Backtick>> \o SelectText \o <<Backtick>>, ShowText,
     <<"INSERT INTO">>, <<>>}

IntValue(n) == [t |-> "int", s |-> <<ToString(n)>>]
StrRow(s) == [t |-> "str", s |-> s, vals |-> <<>>]
ListRow(vals) == [t |-> "list", s |-> <<>>, vals |-> vals]
IntRow == [t |-> "int", s |-> <<"7">>, vals |-> <<>>]
DataList(rows) == [t |-> "list", rows |-> rows]
DataNone == [t |-> "None", rows |-> <<>>]
ExecOutcomes ==
    {[raised |-> TRUE, error |-> <<"table not found">>, data |-> DataNone]}
    \cup {[raised |-> FALSE, error |-> <<>>, data |-> d] :
            d \in {DataNone, DataList(<<>>),
                   DataList(<<ListRow(<<PyStr(<<"a">>), IntValue(1)>>),
                              ListRow(<<PyNone, IntValue(2)>>)>>),
                   DataList(<<StrRow(<<"o", "k">>)>>),
                   DataList(<<IntRow>>)}}

MetadataQueries ==
    {<<Backtick, "files", Backtick>>, <<"files", ".", "sales">>,
     <<Backtick, "files", ".", "missing", Backtick>>, <<"a", ".", "b", ".", "c">>}
HandlerOutcomes ==
    {[raised |-> TRUE, error |-> <<"unknown integration">>],
     [raised |-> FALSE, error |-> <<>>]}
ListingRow(name, width) ==
    SubSeq(<<PyStr(<<name>>), IntValue(10), PyStr(<<"BASE TABLE">>)>>, 1, width)
ListingOutcomes ==
    {[raised |-> TRUE, error |-> <<"connection lost">>, name_col |-> "none", rows |-> <<>>]}
    \cup {[raised |-> FALSE, error |-> <<>>, name_col |-> c,
           rows |-> <<ListingRow("sales", w), ListingRow("stock", w)>>] :
            c \in {"TABLE_NAME", "table_name", "name"}, w \in 1..3}
    \cup {[raised |-> FALSE, error |-> <<>>, name_col |-> "TABLE_NAME", rows |-> <<>>]}
ColumnsOutcomes ==
    {[raised |-> TRUE, fields |-> <<>>, types |-> <<>>],
     [raised |-> FALSE, fields |-> <<<<"id">>, <<"amount">>>>,
      types |-> <<<<"int">>, <<"float">>>>]}

NextTools ==
    \/ \E args \in ToolCreateArgs : Create(args)
    \/ Predict(<<RowHello>>, EmptyDict, FullEnv)
    \/ AgentCall
    \/ \E q \in StatementQueries, x \in ExecOutcomes : MdbExecCall(q, x)
    \/ \E q \in MetadataQueries, h \in HandlerOutcomes, l \in ListingOutcomes,
          c \in ColumnsOutcomes : MdbExecMetadataCall(q, h, l, c)
    \/ \E q \in StatementQueries, x \in ExecOutcomes : MdbWriteCall(q, x)
    \/ \E reply \in AgentReplies : AgentReturn(reply)
    \/ \E e \in ErrorMessages : AgentRaise(e)
    \/ RunAgentReturn
    \/ ReturnToCaller

SpecTools == Init /\ [][NextTools]_vars

\* ------------------------------------ every short template: SpecTemplate
\* the templates of at most MaxTplLen pieces over "{", "}" and "x", and the
\* templates named above
TemplatePieces == {"{", "}", "x"}
TemplateInputs ==
    UNION {[1..n -> TemplatePieces] : n \in 0..MaxTplLen}
    \cup {EscapeTemplate, TranslateTemplate, PairTemplate}
TemplateCreateArgs ==
    {[using |-> [prompt_template |-> t, openai_api_key |-> "sk"]] : t \in TemplateInputs}

NextTemplate ==
    \/ \E args \in TemplateCreateArgs : Create(args)
    \/ \E d \in {<<>>, <<RowHello>>} : Predict(d, EmptyDict, FullEnv)
    \/ AgentCall
    \/ AgentReturn(<<"reply-1">>)
    \/ AgentRaise(Chars(3))
    \/ RunAgentReturn
    \/ ReturnToCaller

SpecTemplate == Init /\ [][NextTemplate]_vars

\* ===================================================== properties, SpecRun
\* row i (0-based) of the current call has every referenced column missing
AllMissing(i) ==
    \A k \in 1..Len(input_variables) :
        LET v == df[i + 1][input_variables[k]]
        IN v = PyNone \/ v = PyNaN

\* how many rows up to and including row i are not AllMissing
Rank(i) == Cardinality({j \in 0..i : ~AllMissing(j)})

Returned == op = "predict" /\ outcome = "returned"

\* what a turn of the agent leaves as its row's completion
TurnCompletion(turn) ==
    IF turn.status = "returned" THEN PyStr(turn.result)
    ELSE PyStr(<<"agent failed with error:\n">>
               \o SubSeq(turn.result, 1,
                         IF Len(turn.result) < ErrTruncLen THEN Len(turn.result)
                         ELSE ErrTruncLen)
               \o <<"...">>)

\* C1: the completion sequence run_agent returns has exactly one entry per
\* input row, whatever rows are excluded and whatever the agent runs did.
C1_LengthPreserved == Returned => Len(pred_df) = Len(df)

C1_Witness ==
    /\ Returned
    /\ Len(df) = 3
    /\ empty_prompt_ids # {}
    /\ Cardinality(empty_prompt_ids) < Len(df)
    /\ \E k \in 1..Len(agent_memory) : agent_memory[k].status = "failed"
    /\ Len(pred_df) = 3

\* C2: in the returned sequence, position i is null exactly when every
\* referenced column of row i is missing; otherwise it is the non-null
\* outcome of the agent turn whose prompt was built from row i, the k-th
\* included row getting the k-th turn.
C2_Alignment ==
    Returned =>
        /\ Len(pred_df) = Len(df)
        /\ \A i \in 0..(Len(df) - 1) :
            /\ pred_df[i + 1] = PyNone <=> AllMissing(i)
            /\ ~AllMissing(i) =>
                /\ Rank(i) <= Len(agent_memory)
                /\ agent_memory[Rank(i)].prompt
                       = BuildPrompt(df[i + 1], input_variables, base_template).s
                /\ pred_df[i + 1] = TurnCompletion(agent_memory[Rank(i)])
                /\ pred_df[i + 1].t = "str"

C2_Witness ==
    /\ Returned
    /\ df = <<RowHello, RowMissing, RowBye>>
    /\ base_template = <<"Translate: ", "{", "text", "}">>
    /\ empty_prompt_ids = {1}
    /\ agent_memory[1].prompt = <<"Translate: ", "hello">>
    /\ agent_memory[2].prompt = <<"Translate: ", "bye">>
    /\ pred_df = <<PyStr(<<"reply-1">>), PyNone, PyStr(<<"reply-2">>)>>

\* C3: a failing agent run leaves the marker and at most the first 50
\* characters of its message as that row's completion; the loop goes on, and
\* the call returns only when every prompt has had its run and its completion.
C3_FailureIsolated ==
    op = "predict" =>
        /\ \A k \in 1..Len(agent_memory) :
            agent_memory[k].status = "failed" =>
                /\ outcome # "raised"
                /\ k <= Len(completion)
                /\ completion[k] = TurnCompletion(agent_memory[k])
                /\ Len(completion[k].s) <= ErrTruncLen + 2
        /\ Returned =>
            /\ Len(agent_memory) = Len(prompts)
            /\ Len(completion) = Len(prompts)
            /\ \A k \in 1..Len(prompts) :
                /\ agent_memory[k].prompt = prompts[k]
                /\ agent_memory[k].status \in {"returned", "failed"}

C3_Witness ==
    /\ Returned
    /\ Len(agent_memory) = 3
    /\ agent_memory[1].status = "failed"
    /\ Len(agent_memory[1].result) > ErrTruncLen
    /\ Len(completion[1].s) = ErrTruncLen + 2
    /\ agent_memory[2].status = "returned"
    /\ agent_memory[3].status = "failed"
    /\ Len(agent_memory[3].result) < ErrTruncLen

\* C9 as claimed: in the prompt of an included row every referenced field
\* that is missing (None or NaN, as for the exclusion of rows) is rendered as
\* the empty string.
C9_MissingFieldsEmpty ==
    (op = "predict" /\ outcome \in {"pending", "returned"}) =>
        \A i \in 0..(Len(df) - 1) :
            ~AllMissing(i) =>
                prompts[Rank(i)]
                    = Format(base_template,
                             [c \in {input_variables[k] : k \in 1..Len(input_variables)} |->
                                 IF df[i + 1][c] = PyNone \/ df[i + 1][c] = PyNaN
                                 THEN PyStr(<<>>)
                                 ELSE df[i + 1][c]]).s

\* C10: the agent of the call is the only one built; its turns are the
\* included rows in ascending order, one turn each, none for an excluded
\* row, and a turn starts only when every earlier turn has returned or failed.
C10_SequentialInRowOrder ==
    op = "predict" =>
        /\ agents_built <= 1
        /\ agent_memory # <<>> => (agents_built = 1 /\ outcome # "raised")
        /\ \A k \in 1..(Len(agent_memory) - 1) : agent_memory[k].status # "running"
        /\ (pc = "running") <=>
               (agent_memory # <<>> /\ agent_memory[Len(agent_memory)].status = "running")
        /\ outcome # "raised" =>
            /\ Len(agent_memory)
                   <= Cardinality({i \in 0..(Len(df) - 1) : ~AllMissing(i)})
            /\ \A i \in 0..(Len(df) - 1) :
                (~AllMissing(i) /\ Rank(i) <= Len(agent_memory)) =>
                    agent_memory[Rank(i)].prompt
                        = BuildPrompt(df[i + 1], input_variables, base_template).s
        /\ Returned =>
               Len(agent_memory) = Cardinality({i \in 0..(Len(df) - 1) : ~AllMissing(i)})

C10_Witness ==
    /\ pc = "running"
    /\ df = <<RowOnlyB, RowBye, RowMissing>>
    /\ Len(agent_memory) = 2
    /\ agent_memory[1].status = "failed"
    /\ agent_memory[1].prompt = <<" to ", "fr">>
    /\ agent_memory[2].prompt = <<"bye", " to ", "nan">>

\* =================================================== properties, SpecTools
\* C4 as claimed: whatever the parser, the executor and the source handler
\* do, an invocation of a host-bridge tool does not raise and returns a text.
C4_ToolsReturnText ==
    tool_name \in {MdbTool, MdbMetaTool, MdbWriteTool} =>
        (~tool_raised /\ tool_ret.t = "str")

\* C5: the write tool hands a statement to executor.execute_command exactly
\* when the query parses to an Insert, and then once; an Insert whose
\* execution returns gives the success text; any other statement is not
\* executed and the call ends without raising.
C5_WriteOnlyInsert ==
    tool_name = MdbWriteTool =>
        LET isInsert ==
                \E n \in 0..Len(tool_env.query), m \in 0..Len(tool_env.query) :
                    /\ n + m <= Len(tool_env.query)
                    /\ tool_env.query
                           = [k \in 1..n |-> Backtick] \o InsertText
                             \o [k \in 1..m |-> Backtick]
        IN /\ ~tool_raised
           /\ isInsert <=> executed # <<>>
           /\ isInsert =>
                /\ Len(executed) = 1
                /\ executed[1].kind = "Insert"
                /\ ~tool_env.exec.raised
                     => tool_ret = PyStr(<<"mindsdb write tool executed successfully">>)
           /\ ~isInsert => tool_ret # PyStr(<<"mindsdb write tool executed successfully">>)

C5_Witness ==
    /\ tool_name = MdbWriteTool
    /\ tool_env.query = <<Backtick>> \o InsertText \o <<Backtick>>
    /\ ~tool_env.exec.raised
    /\ Len(executed) = 1
    /\ executed[1].text = InsertText
    /\ tool_ret = PyStr(<<"mindsdb write tool executed successfully">>)

\* ================================================ properties, SpecTemplate
\* the template of the model being predicted
ModelTemplate == Get(model_args.d, "prompt_template", <<>>)

\* run_agent has scanned the template (lines 186-190)
Scanned == op = "predict" /\ error \in {"none", "KeyError: column", "format error"}

\* run_agent has collapsed the doubled braces (line 194)
Compiled == op = "predict" /\ error \in {"none", "format error"}

\* how many c stand directly before position i of t
RunBefore(t, i, c) ==
    LET others == {j \in 1..(i - 1) : t[j] # c}
    IN IF others = {} THEN i - 1
       ELSE i - 1 - (CHOOSE j \in others : \A h \in others : h <= j)

\* how many disjoint pairs cc a left-to-right scan of t meets
DisjointPairs(t, c) ==
    Cardinality({i \in 1..(Len(t) - 1) :
                    t[i] = c /\ t[i + 1] = c /\ RunBefore(t, i, c) % 2 = 0})

NoBraces(t) == \A k \in 1..Len(t) : t[k] \notin {"{", "}"}
WithoutBraces(t) == SelectSeq(t, LAMBDA ch : ch \notin {"{", "}"})

\* C7 as claimed: "{{{{literal}}}} {{x}}" compiles to "{literal} {x}" with
\* the placeholder list ["x"].
C7_EscapeAsClaimed ==
    (Compiled /\ ModelTemplate = EscapeTemplate) =>
        /\ base_template = <<"{", "literal", "}", " ", "{", "x", "}">>
        /\ input_variables = <<<<"x">>>>

\* C7, amended: "{{{{literal}}}} {{x}}" compiles to "{{literal}} {x}" with
\* the placeholder list ["literal", "x"].  For every template, a placeholder
\* name holds no brace, and the compiled template is the source with each
\* pair "{{" and each pair "}}" met by a left-to-right scan shortened to one
\* brace, everything else kept in place.
C7_EscapeCompiles ==
    /\ (Compiled /\ ModelTemplate = EscapeTemplate) =>
        /\ base_template = <<"{", "{", "literal", "}", "}", " ", "{", "x", "}">>
        /\ input_variables = <<<<"literal">>, <<"x">>>>
    /\ Scanned =>
        /\ \A k \in 1..Len(input_variables) : NoBraces(input_variables[k])
        /\ Len(input_variables) <= DisjointPairs(ModelTemplate, "{")
        /\ Len(input_variables) <= DisjointPairs(ModelTemplate, "}")
    /\ Compiled =>
        /\ WithoutBraces(base_template) = WithoutBraces(ModelTemplate)
        /\ Len(base_template)
               = Len(ModelTemplate) - DisjointPairs(ModelTemplate, "{")
                 - DisjointPairs(ModelTemplate, "}")

C7_Witness ==
    /\ Compiled
    /\ ModelTemplate = EscapeTemplate
    /\ base_template = <<"{", "{", "literal", "}", "}", " ", "{", "x", "}">>
    /\ input_variables = <<<<"literal">>, <<"x">>>>

\* ======================================================= properties, Spec
InList(x, l) == \E k \in 1..Len(l) : l[k] = x

\* C6 as claimed: the tool list of a default-variant prediction holds the
\* write tool only when the model being predicted was created with writer
\* enabled; it always holds the read tool and the metadata tool.
C6_WriteToolOnlyForWriter ==
    (op = "predict" /\ agent.kind = "default") =>
        /\ InList(MdbWriteTool, agent.tools) => Get(model_args.d, "writer", FALSE)
        /\ InList(MdbTool, agent.tools)
        /\ InList(MdbMetaTool, agent.tools)

\* C8 as claimed: a predict call with no usable template (none in the model
\* arguments, none or an empty one in the prediction arguments), or, for the
\* default variant, with no LLM credential, raises before any LLM client or
\* agent is constructed and before any agent run; create_validation raises
\* when the USING clause or its prompt_template is missing.
C8_ConfigErrorsBeforeConstruction ==
    /\ op = "predict" =>
        LET args == model_args.d
            pp == call_args["predict_params"]
            env == call_args["env"]
            noTemplate ==
                /\ "prompt_template" \notin DOMAIN args
                /\ ("prompt_template" \in DOMAIN pp => pp["prompt_template"] = <<>>)
            noCredential ==
                /\ Get(args, "modal_dispatch", "default") # "sql_agent"
                /\ "openai_api_key" \notin DOMAIN args
                /\ ~env.openai_api_key
        IN (noTemplate \/ noCredential) =>
               /\ outcome = "raised"
               /\ llm_built = 0
               /\ agents_built = 0
               /\ agent_memory = <<>>
    /\ op = "create_validation" =>
        (("using" \notin DOMAIN call_args
          \/ "prompt_template" \notin DOMAIN call_args["using"])
            => outcome = "raised")

====
